---- MODULE Spec2Model ----
(***************************************************************************)
(* proc-mounts: the parsers of /proc/mounts (src/src/mounts.rs) and        *)
(* /proc/swaps (src/src/swaps.rs) and the queries on the parsed lists.     *)
(*                                                                         *)
(* Text is modelled as the sequence of its bytes (0..255), as              *)
(* str::bytes() yields them.  An io::Result is a record: Ok(v) or      *)
(* Err(kind, msg) with the ErrorKind and the message the source gives.     *)
(***************************************************************************)
EXTENDS Integers, Sequences, FiniteSets, TLC

VARIABLES
  call,    \* the operation called and its arguments
  pc,      \* "call": the call is to be made; "done": it has returned
  ret,     \* what the call returned
  mounts,  \* the MountList constructed (an io::Result), NoList before
  swaps    \* the SwapList constructed (an io::Result), NoList before

vars == <<call, pc, ret, mounts, swaps>>

----------------------------------------------------------------------------
(* Bytes of a &str literal.                                                *)

Printable ==
  <<" ", "!", "dquote", "#", "$", "%", "&", "'", "(", ")", "*", "+", ",", "-",
    ".", "/", "0", "1", "2", "3", "4", "5", "6", "7", "8", "9", ":", ";",
    "<", "=", ">", "?", "@", "A", "B", "C", "D", "E", "F", "G", "H", "I",
    "J", "K", "L", "M", "N", "O", "P", "Q", "R", "S", "T", "U", "V", "W",
    "X", "Y", "Z", "[", "backslash", "]", "^", "_", "backtick", "a", "b", "c", "d", "e",
    "f", "g", "h", "i", "j", "k", "l", "m", "n", "o", "p", "q", "r", "s",
    "t", "u", "v", "w", "x", "y", "z", "{", "|", "}", "~">>

\* The byte of one ASCII character, named by itself ("tab" is 9, "dquote"
\* 34 and "backslash" 92).
Code(c) ==
  IF c = "tab" THEN 9
  ELSE 31 + (CHOOSE i \in 1..Len(Printable) : Printable[i] = c)

\* The bytes of a literal given as the tuple of its characters.
Text(cs) == [i \in 1..Len(cs) |-> Code(cs[i])]

BACKSLASH == 92
SPACE == 32
COMMA == 44
SLASH == 47
DOT == 46
PLUS == 43
MINUS == 45
ZERO == 48

----------------------------------------------------------------------------
(* io::Result                                                              *)

Ok(v) == [ok |-> TRUE, val |-> v]
Err(kind, msg) == [ok |-> FALSE, kind |-> kind, msg |-> msg]

----------------------------------------------------------------------------
(* parse_value: the decoder of backslash-octal escapes.                    *)

\* (mutant of from_str_radix_8: the decimal digits '8' and '9' convert too)
\* u32::from_str_radix(&(b as char).to_string(), 8) of one byte b: only the
\* digits '0'..'7' convert; a sign alone, any other ASCII byte and any byte
\* above 127 (a two-byte char) give a ParseIntError.
from_str_radix_8_decimal(b) ==
  IF b \in ZERO..(ZERO + 9) THEN Ok(b - ZERO)
  ELSE Err("Other", "invalid digit found in string")

from_str_radix_8(b) ==
  IF b \in ZERO..(ZERO + 7) THEN Ok(b - ZERO)
  ELSE Err("Other", "invalid digit found in string")

\* (mutant of octal_code: the digits are combined in base 10)
RECURSIVE octal_code_base10(_, _, _, _)
octal_code_base10(value, i, n, code) ==
  IF n = 3 THEN Ok(code)
  ELSE IF i > Len(value) THEN Err("Other", "truncated octal code")
  ELSE LET d == from_str_radix_8(value[i])
       IN  IF d.ok
           THEN octal_code_base10(value, i + 1, n + 1, code * 10 + d.val)
           ELSE d

\* for _i in 0..3 { ... }: n digits read so far, the next byte at index i.
\* Returns Ok(code) or the error that ends parse_value.
RECURSIVE octal_code(_, _, _, _)
octal_code(value, i, n, code) ==
  IF n = 3 THEN Ok(code)
  ELSE IF i > Len(value) THEN Err("Other", "truncated octal code")
  ELSE LET d == from_str_radix_8(value[i])
       IN  IF d.ok THEN octal_code(value, i + 1, n + 1, code * 8 + d.val)
           ELSE d

\* (mutant of as_u8: a code above 255 saturates)
as_u8_saturating(code) == IF code > 255 THEN 255 ELSE code

\* code as u8: the u32 narrowed to its low 8 bits.
as_u8(code) == code % 256

\* while let Some(b) = bytes.next() { match b { ... } }: the next byte at
\* index i, ret the bytes pushed so far.
RECURSIVE parse_value_loop(_, _, _)
parse_value_loop(value, i, out) ==
  IF i > Len(value) THEN Ok(out)
  ELSE IF value[i] = BACKSLASH
       THEN LET c == octal_code(value, i + 1, 0, 0)
            IN  IF c.ok
                THEN parse_value_loop(value, i + 4, Append(out, as_u8(c.val)))
                ELSE c
       ELSE parse_value_loop(value, i + 1, Append(out, value[i]))

MountList_parse_value(value) == parse_value_loop(value, 1, <<>>)

SwapList_parse_value(value) == parse_value_loop(value, 1, <<>>)

----------------------------------------------------------------------------
(* str::split, str::split_whitespace, str::parse, OsString::to_str.        *)

\* line.split(sep): the pieces between the occurrences of the byte sep, the
\* empty ones included; cur is the piece being read, i the next index.
RECURSIVE split_from(_, _, _, _)
split_from(s, sep, i, cur) ==
  IF i > Len(s) THEN <<cur>>
  ELSE IF s[i] = sep THEN <<cur>> \o split_from(s, sep, i + 1, <<>>)
  ELSE split_from(s, sep, i + 1, Append(cur, s[i]))

str_split(s, sep) == split_from(s, sep, 1, <<>>)

\* char::is_whitespace on an ASCII byte: tab, LF, VT, FF, CR, space.
is_whitespace(b) == b \in {9, 10, 11, 12, 13, SPACE}

\* line.split_whitespace(): the non-empty pieces between runs of whitespace.
RECURSIVE split_whitespace_from(_, _, _)
split_whitespace_from(s, i, cur) ==
  LET piece == IF cur = <<>> THEN <<>> ELSE <<cur>>
  IN  IF i > Len(s) THEN piece
      ELSE IF is_whitespace(s[i])
           THEN piece \o split_whitespace_from(s, i + 1, <<>>)
           ELSE split_whitespace_from(s, i + 1, Append(cur, s[i]))

split_whitespace(s) == split_whitespace_from(s, 1, <<>>)

I32_MAX == 2147483647
I32_MIN == -2147483647 - 1

is_signed_ty(ty) == ty \in {"i32", "isize"}

\* checked_mul(10), checked_add(d), checked_sub(d) of the type ty.  The i32
\* range is checked.  usize and isize have at least 32 bits: no field of at most
\* 9 digits overflows them, and the swap fields of the inputs are that short.
checked_mul_10(x, ty) ==
  IF ty = "i32" /\ (x > I32_MAX \div 10 \/ x < (I32_MIN + 9) \div 10)
  THEN Err("ParseIntError", "overflow")
  ELSE Ok(x * 10)

checked_add(x, d, ty) ==
  IF ty = "i32" /\ x > I32_MAX - d
  THEN Err("ParseIntError", "PosOverflow")
  ELSE Ok(x + d)

checked_sub(x, d, ty) ==
  IF ty = "i32" /\ x < I32_MIN + d
  THEN Err("ParseIntError", "NegOverflow")
  ELSE Ok(x - d)

\* (c as char).to_digit(10)
to_digit_10(b) ==
  IF b \in ZERO..(ZERO + 9) THEN Ok(b - ZERO)
  ELSE Err("ParseIntError", "InvalidDigit")

\* for &c in digits { ... }: result so far, the next digit at index i.
RECURSIVE accumulate(_, _, _, _, _)
accumulate(digits, i, result, is_positive, ty) ==
  IF i > Len(digits) THEN Ok(result)
  ELSE LET x == to_digit_10(digits[i])
       IN  IF ~x.ok THEN x
           ELSE LET m == checked_mul_10(result, ty)
                IN  IF ~m.ok THEN m
                    ELSE LET a == IF is_positive
                                  THEN checked_add(m.val, x.val, ty)
                                  ELSE checked_sub(m.val, x.val, ty)
                         IN  IF ~a.ok THEN a
                             ELSE accumulate(digits, i + 1, a.val, is_positive, ty)

\* (mutant of from_str: no sign is read, every byte must be a digit)
from_str_no_sign(src, ty) ==
  IF src = <<>> THEN Err("ParseIntError", "Empty")
  ELSE accumulate(src, 1, 0, TRUE, ty)

\* <ty as FromStr>::from_str(src) = from_str_radix(src, 10): an optional sign
\* ('-' only for a signed type) and at least one decimal digit.
from_str(src, ty) ==
  IF src = <<>> THEN Err("ParseIntError", "Empty")
  ELSE LET signed == src[1] = PLUS \/ (src[1] = MINUS /\ is_signed_ty(ty))
           is_positive == ~(src[1] = MINUS /\ is_signed_ty(ty))
           digits == IF signed THEN Tail(src) ELSE src
       IN  IF digits = <<>> THEN Err("ParseIntError", "InvalidDigit")
           ELSE accumulate(digits, 1, 0, is_positive, ty)

\* str::from_utf8 on the bytes from index i on: whether they are valid UTF-8.
RECURSIVE is_utf8_from(_, _)
is_utf8_from(bytes, i) ==
  IF i > Len(bytes) THEN TRUE
  ELSE LET b == bytes[i]
           cont(k) == i + k <= Len(bytes) /\ bytes[i + k] \in 128..191
           second(lo, hi) == i + 1 <= Len(bytes) /\ bytes[i + 1] \in lo..hi
       IN  IF b < 128 THEN is_utf8_from(bytes, i + 1)
           ELSE IF b \in 194..223
                THEN cont(1) /\ is_utf8_from(bytes, i + 2)
           ELSE IF b \in 224..239
                THEN /\ second(IF b = 224 THEN 160 ELSE 128,
                               IF b = 237 THEN 159 ELSE 191)
                     /\ cont(2)
                     /\ is_utf8_from(bytes, i + 3)
           ELSE IF b \in 240..244
                THEN /\ second(IF b = 240 THEN 144 ELSE 128,
                               IF b = 244 THEN 143 ELSE 191)
                     /\ cont(2)
                     /\ cont(3)
                     /\ is_utf8_from(bytes, i + 4)
           ELSE FALSE

\* OsStr::to_str: Some exactly when the bytes are valid UTF-8.
to_str_is_some(bytes) == is_utf8_from(bytes, 1)

----------------------------------------------------------------------------
(* MountList::parse_line                                                   *)

\* The body of parse_line after `let mut parts = line.split(' ')`; the k-th
\* parts.next() is Some(parts[k]) when k <= Len(parts), None otherwise.
MountList_parse_parts(parts) ==
  LET missing(what) == Err("InvalidData", what)
  IN  IF Len(parts) < 1 THEN missing("missing source")
      ELSE IF Len(parts) < 2 THEN missing("missing dest")
      ELSE IF Len(parts) < 3 THEN missing("missing type")
      ELSE IF Len(parts) < 4 THEN missing("missing options")
      ELSE IF Len(parts) < 5 THEN missing("missing dump")
      ELSE LET dump == from_str(parts[5], "i32")
      IN  IF ~dump.ok THEN Err("InvalidData", "dump value is not a number")
      ELSE IF Len(parts) < 6 THEN missing("missing pass")
      ELSE LET pass == from_str(parts[6], "i32")
      IN  IF ~pass.ok THEN Err("InvalidData", "pass value is not a number")
      ELSE LET source == MountList_parse_value(parts[1])
      IN  IF ~source.ok THEN source
      ELSE LET dest == MountList_parse_value(parts[2])
      IN  IF ~dest.ok THEN dest
      ELSE Ok([source  |-> source.val,
               dest    |-> dest.val,
               fstype  |-> parts[3],
               options |-> str_split(parts[4], COMMA),
               dump    |-> dump.val,
               pass    |-> pass.val])

\* (mutant of MountList_parse_line: the six fields are counted before any of
\* them is converted)
MountList_parse_line_count_first(line) ==
  LET parts == str_split(line, SPACE)
      names == <<"missing source", "missing dest", "missing type",
                 "missing options", "missing dump", "missing pass">>
  IN  IF Len(parts) < 6 THEN Err("InvalidData", names[Len(parts) + 1])
      ELSE MountList_parse_parts(parts)

\* (mutant of MountList_parse_line: an absent pass field defaults to "0")
MountList_parse_line_default_pass(line) ==
  LET parts == str_split(line, SPACE)
  IN  MountList_parse_parts(IF Len(parts) = 5 THEN Append(parts, <<ZERO>>) ELSE parts)

MountList_parse_line(line) == MountList_parse_parts(str_split(line, SPACE))

----------------------------------------------------------------------------
(* SwapList::parse_line                                                    *)

\* (mutant of swap_parse: every number is read as a signed one)
swap_parse_signed(string, ty) ==
  IF ~to_str_is_some(string)
  THEN Err("InvalidData", "/proc/swaps contains non-UTF8 entry")
  ELSE LET r == from_str(string, "isize")
       IN  IF r.ok THEN r
           ELSE Err("InvalidData", "/proc/swaps contains invalid data")

\* fn parse<F: FromStr>(string: &OsString) -> Result<F>
swap_parse(string, ty) ==
  IF ~to_str_is_some(string)
  THEN Err("InvalidData", "/proc/swaps contains non-UTF8 entry")
  ELSE LET r == from_str(string, ty)
       IN  IF r.ok THEN r
           ELSE Err("InvalidData", "/proc/swaps contains invalid data")

\* macro next_value!(err), for the k-th call of parts.next()
next_value(parts, k, err) ==
  IF k > Len(parts) THEN Err("Other", err)
  ELSE SwapList_parse_value(parts[k])

\* parse::<ty>(&next_value!(err)?)
next_number(parts, k, err, ty) ==
  LET v == next_value(parts, k, err)
  IN  IF ~v.ok THEN v ELSE swap_parse(v.val, ty)

SwapList_parse_line(line) ==
  LET parts == split_whitespace(line)
      source == next_value(parts, 1, "Missing source")
  IN  IF ~source.ok THEN source
      ELSE LET kind == next_value(parts, 2, "Missing kind")
      IN  IF ~kind.ok THEN kind
      ELSE LET size == next_number(parts, 3, "Missing size", "usize")
      IN  IF ~size.ok THEN size
      ELSE LET used == next_number(parts, 4, "Missing used", "usize")
      IN  IF ~used.ok THEN used
      ELSE LET priority == next_number(parts, 5, "Missing priority", "isize")
      IN  IF ~priority.ok THEN priority
      ELSE Ok([source   |-> source.val,
               kind     |-> kind.val,
               size     |-> size.val,
               used     |-> used.val,
               priority |-> priority.val])

----------------------------------------------------------------------------
(* parse_from: lines.map(Self::parse_line).collect::<Result<Vec<_>>>()     *)

\* (mutant of MountList_collect: a line that fails to parse is skipped)
RECURSIVE MountList_collect_skipping(_, _, _)
MountList_collect_skipping(lines, i, vec) ==
  IF i > Len(lines) THEN Ok(vec)
  ELSE LET r == MountList_parse_line(lines[i])
       IN  MountList_collect_skipping(lines, i + 1,
                                      IF r.ok THEN Append(vec, r.val) ELSE vec)

\* collect: the lines are parsed in order into vec; the first Err ends the
\* iteration and is the result.
RECURSIVE MountList_collect(_, _, _)
MountList_collect(lines, i, vec) ==
  IF i > Len(lines) THEN Ok(vec)
  ELSE LET r == MountList_parse_line(lines[i])
       IN  IF r.ok THEN MountList_collect(lines, i + 1, Append(vec, r.val))
           ELSE r

MountList_parse_from(lines) == MountList_collect(lines, 1, <<>>)

RECURSIVE SwapList_collect(_, _, _)
SwapList_collect(lines, i, vec) ==
  IF i > Len(lines) THEN Ok(vec)
  ELSE LET r == SwapList_parse_line(lines[i])
       IN  IF r.ok THEN SwapList_collect(lines, i + 1, Append(vec, r.val))
           ELSE r

SwapList_parse_from(lines) == SwapList_collect(lines, 1, <<>>)

----------------------------------------------------------------------------
(* Path equality and the queries.                                          *)

\* Path::components: the root when the path starts with '/', a leading "."
\* of a relative path, then every piece between '/' that is neither empty nor
\* "." (repeated and trailing separators and inner "." are dropped).
path_components(path) ==
  LET pieces == str_split(path, SLASH)
      has_root == path # <<>> /\ path[1] = SLASH
      cur_dir == ~has_root /\ pieces[1] = <<DOT>>
      rest == IF cur_dir THEN Tail(pieces) ELSE pieces
  IN  (IF has_root THEN <<"RootDir">> ELSE <<>>)
      \o (IF cur_dir THEN <<"CurDir">> ELSE <<>>)
      \o SelectSeq(rest, LAMBDA c : c # <<>> /\ c # <<DOT>>)

\* (mutant of path_eq: the paths are compared byte by byte)
path_eq_bytes(a, b) == a = b

\* impl PartialEq for Path (PathBuf == &Path): the components are compared.
path_eq(a, b) == path_components(a) = path_components(b)

None == [some |-> FALSE]
Some(v) == [some |-> TRUE, val |-> v]

\* self.0.iter().find(|mount| mount.dest == path.as_ref()), from index i on.
RECURSIVE find_dest(_, _, _)
find_dest(list, path, i) ==
  IF i > Len(list) THEN None
  ELSE IF path_eq(list[i].dest, path) THEN Some(list[i])
  ELSE find_dest(list, path, i + 1)

get_mount_by_dest(list, path) == find_dest(list, path, 1)

\* self.0.iter().find(|mount| mount.source == path.as_ref()), from index i on.
RECURSIVE find_source(_, _, _)
find_source(list, path, i) ==
  IF i > Len(list) THEN None
  ELSE IF path_eq(list[i].source, path) THEN Some(list[i])
  ELSE find_source(list, path, i + 1)

get_mount_by_source(list, path) == find_source(list, path, 1)

\* (mutant of starts_with: the field must be longer than the path)
starts_with_longer(list, path, field) ==
  SelectSeq(list, LAMBDA mount :
    LET input == mount[field]
    IN  Len(input) > Len(path) /\ SubSeq(input, 1, Len(path)) = path)

\* self.0.iter().filter(move |mount| { ... }): the iterator, as the sequence of
\* the items it yields; field ("source" or "dest") is the closure func.
starts_with(list, path, field) ==
  SelectSeq(list, LAMBDA mount :
    LET input == mount[field]
    IN  Len(input) >= Len(path) /\ SubSeq(input, 1, Len(path)) = path)

source_starts_with(list, path) == starts_with(list, path, "source")

destination_starts_with(list, path) == starts_with(list, path, "dest")

\* self.0.iter().any(|mount| mount.source == path)
get_swapped(list, path) == \E i \in 1..Len(list) : path_eq(list[i].source, path)

----------------------------------------------------------------------------
(* Inputs of the decoder.                                                  *)

MaxValueLen == 5

\* Bytes the exhaustive fields are made of: backslash, octal digits, a
\* decimal digit that is not octal, a letter.
ValueAlphabet == {BACKSLASH, ZERO, ZERO + 3, ZERO + 7, ZERO + 8, Code("a")}

RECURSIVE SeqsUpTo(_, _)
SeqsUpTo(S, n) ==
  IF n = 0 THEN {<<>>}
  ELSE LET shorter == SeqsUpTo(S, n - 1)
       IN  shorter \cup {Append(s, x) : s \in shorter, x \in S}

OctalDigits == ZERO..(ZERO + 7)

\* What may stand before and after an escape: nothing, a letter, a two-byte
\* UTF-8 character.
Around == {<<>>, Text(<<"a">>), <<195, 169>>}

\* Every escape \d1d2d3 with three octal digits (\000 .. \777).
EscapeValues ==
  {pre \o <<BACKSLASH, d1, d2, d3>> \o post :
     pre \in Around, post \in Around,
     d1 \in OctalDigits, d2 \in OctalDigits, d3 \in OctalDigits}

\* Escapes cut short by, or holding, a byte that is not ASCII.
OddValues ==
  {<<BACKSLASH, 195, 169, ZERO>>, <<BACKSLASH, ZERO, ZERO, 195, 169>>,
   <<BACKSLASH, PLUS, ZERO, ZERO>>, <<BACKSLASH, MINUS, ZERO, ZERO>>,
   <<BACKSLASH, ZERO, ZERO, PLUS>>, <<BACKSLASH, SPACE, ZERO, ZERO>>}

Values == SeqsUpTo(ValueAlphabet, MaxValueLen) \cup EscapeValues \cup OddValues

----------------------------------------------------------------------------
(* Specification of the decoder alone: a caller holds one field and calls   *)
(* parse_value on it once.                                                  *)

\* No result yet: the call has not returned.
Pending == [ok |-> FALSE, kind |-> "Pending", msg |-> ""]

\* No list has been constructed.
NoList == [ok |-> FALSE, kind |-> "NoList", msg |-> ""]

InitValue ==
  /\ call \in {[op |-> op, value |-> value] :
                 op \in {"MountList::parse_value", "SwapList::parse_value"},
                 value \in Values}
  /\ pc = "call"
  /\ ret = Pending
  /\ mounts = NoList
  /\ swaps = NoList

MountParseValue ==
  /\ pc = "call"
  /\ call.op = "MountList::parse_value"
  /\ ret' = MountList_parse_value(call.value)
  /\ pc' = "done"
  /\ UNCHANGED <<call, mounts, swaps>>

SwapParseValue ==
  /\ pc = "call"
  /\ call.op = "SwapList::parse_value"
  /\ ret' = SwapList_parse_value(call.value)
  /\ pc' = "done"
  /\ UNCHANGED <<call, mounts, swaps>>

NextValue == MountParseValue \/ SwapParseValue

SpecValue == InitValue /\ [][NextValue]_vars

----------------------------------------------------------------------------
(* Inputs of the line parsers.                                             *)

\* How many fields a line may have beyond those the parser names.
MaxExtraFields == 1

\* The pieces joined with the separator sep between them.
RECURSIVE Join(_, _)
Join(pieces, sep) ==
  IF pieces = <<>> THEN <<>>
  ELSE IF Len(pieces) = 1 THEN pieces[1]
  ELSE pieces[1] \o sep \o Join(Tail(pieces), sep)

\* The sequences of n fields, the k-th drawn from Column[k] (from Extra past
\* the columns).
RECURSIVE FieldSeqs(_, _, _)
FieldSeqs(Column, Extra, n) ==
  IF n = 0 THEN {<<>>}
  ELSE {Append(fs, f) :
          fs \in FieldSeqs(Column, Extra, n - 1),
          f \in IF n <= Len(Column) THEN Column[n] ELSE Extra}

\* Dests: plain, with an escaped space, with an escape cut short.
PathFields ==
  {Text(<<"/", "a">>),
   Text(<<"a", "backslash", "0", "4", "0", "b">>),
   Text(<<"backslash", "0", "4">>)}

\* Sources: plain, with an escape cut short.
SourceFields ==
  {Text(<<"/", "a">>), Text(<<"backslash", "0", "4">>)}

FstypeFields ==
  {Text(<<"e", "x", "t", "4">>), Text(<<"backslash", "0", "4", "0">>)}

OptionsFields ==
  {Text(<<"r", "w", ",", "r", "o", ",", "r", "w">>),
   <<>>,
   Text(<<"a", "backslash", "0", "4", "0", ",">>)}

\* dump and pass: in and out of the i32 range, signed, padded, not numbers.
I32Fields ==
  {Text(<<"0">>), Text(<<"-", "2">>), Text(<<"+", "1">>), Text(<<"0", "0", "7">>),
   Text(<<"2", "1", "4", "7", "4", "8", "3", "6", "4", "7">>),
   Text(<<"2", "1", "4", "7", "4", "8", "3", "6", "4", "8">>),
   Text(<<"-", "2", "1", "4", "7", "4", "8", "3", "6", "4", "8">>),
   Text(<<"-", "2", "1", "4", "7", "4", "8", "3", "6", "4", "9">>),
   Text(<<"x">>), <<>>, Text(<<"1", "x">>), Text(<<"-">>)}

MountColumns ==
  <<SourceFields, PathFields, FstypeFields, OptionsFields, I32Fields, I32Fields>>

MountExtraFields == {Text(<<"x">>), <<>>}

\* Mount lines of 1 to 6 + MaxExtraFields fields joined by one space each (an
\* empty field stands for two adjacent spaces), and the empty line.
MountLines ==
  {<<>>} \cup
  UNION {{Join(fs, <<SPACE>>) : fs \in FieldSeqs(MountColumns, MountExtraFields, n)} :
           n \in 1..(6 + MaxExtraFields)}

SwapSourceFields ==
  {Text(<<"/", "d", "e", "v", "/", "s", "d", "a", "5">>),
   Text(<<"a", "backslash", "0", "4", "0", "b">>),
   Text(<<"backslash", "0", "4">>)}

\* partition; \146ile (file); an escape that is not octal.
SwapKindFields ==
  {Text(<<"p", "a", "r", "t", "i", "t", "i", "o", "n">>),
   Text(<<"backslash", "1", "4", "6", "i", "l", "e">>),
   Text(<<"backslash", "9", "0", "0">>)}

\* size: numbers, an escaped digit (\061 is '1'), a negative number, a word,
\* a byte that is no text (\377), a signed number.
SwapSizeFields ==
  {Text(<<"8", "3", "8", "8", "6", "0", "0">>), Text(<<"0">>),
   Text(<<"backslash", "0", "6", "1">>), Text(<<"-", "1">>), Text(<<"x">>),
   Text(<<"backslash", "3", "7", "7">>), Text(<<"+", "1">>)}

SwapUsedFields ==
  {Text(<<"0">>), Text(<<"x">>), Text(<<"backslash", "0", "6", "2">>)}

\* priority: negative, zero, a word, an escaped "-2" (\055\062).
SwapPriorityFields ==
  {Text(<<"-", "2">>), Text(<<"0">>), Text(<<"x">>),
   Text(<<"backslash", "0", "5", "5", "backslash", "0", "6", "2">>)}

SwapColumns ==
  <<SwapSourceFields, SwapKindFields, SwapSizeFields, SwapUsedFields,
    SwapPriorityFields>>

SwapExtraFields == {Text(<<"x">>)}

\* Runs of whitespace between the fields, and what may surround the line.
SwapSeparators == {<<SPACE>>, Text(<<"tab">>), Text(<<" ", " ", "tab">>)}
SwapPadding == {<<>>, <<SPACE>>}

\* Swap lines of 0 to 5 + MaxExtraFields fields.
SwapLines ==
  UNION {{pad \o Join(fs, sep) \o pad :
            fs \in FieldSeqs(SwapColumns, SwapExtraFields, n),
            sep \in SwapSeparators, pad \in SwapPadding} :
           n \in 0..(5 + MaxExtraFields)}

----------------------------------------------------------------------------
(* Specification of the line parsers: a caller holds one line and calls     *)
(* parse_line on it once.                                                   *)

InitLine ==
  /\ call \in {[op |-> "MountList::parse_line", line |-> line] : line \in MountLines}
         \cup {[op |-> "SwapList::parse_line", line |-> line] : line \in SwapLines}
  /\ pc = "call"
  /\ ret = Pending
  /\ mounts = NoList
  /\ swaps = NoList

MountParseLine ==
  /\ pc = "call"
  /\ call.op = "MountList::parse_line"
  /\ ret' = MountList_parse_line(call.line)
  /\ pc' = "done"
  /\ UNCHANGED <<call, mounts, swaps>>

SwapParseLine ==
  /\ pc = "call"
  /\ call.op = "SwapList::parse_line"
  /\ ret' = SwapList_parse_line(call.line)
  /\ pc' = "done"
  /\ UNCHANGED <<call, mounts, swaps>>

NextLine == MountParseLine \/ SwapParseLine

SpecLine == InitLine /\ [][NextLine]_vars

----------------------------------------------------------------------------
(* Inputs of parse_from and of the queries.                                *)

\* How many lines a file may have.
MaxLines == 3

\* Three lines that parse (two with the same source, two whose dest differ
\* only by a trailing '/', one whose dest extends another's) and two that fail
\* differently (dump is no number; dest is missing).
TableMountLines ==
  {Text(<<"/", "d", " ", "/", "a", " ", "t", " ", "o", " ", "0", " ", "0">>),
   Text(<<"/", "d", " ", "/", "a", "b", " ", "t", " ", "o", " ", "0", " ", "0">>),
   Text(<<"/", "e", " ", "/", "a", "/", " ", "t", " ", "o", " ", "0", " ", "0">>),
   Text(<<"/", "d", " ", "/", "a", " ", "t", " ", "o", " ", "x", " ", "0">>),
   Text(<<"/", "d">>)}

\* Three lines that parse and two that fail differently (size is no number;
\* kind is missing).
TableSwapLines ==
  {Text(<<"/", "d", " ", "p", " ", "1", " ", "0", " ", "-", "2">>),
   Text(<<"/", "e", " ", "p", " ", "1", " ", "0", " ", "-", "2">>),
   Text(<<"/", "d", "/", " ", "f", " ", "2", " ", "1", " ", "0">>),
   Text(<<"/", "d", " ", "p", " ", "x", " ", "0", " ", "0">>),
   Text(<<"/", "d">>)}

\* The paths asked for.
QueryPaths ==
  {Text(<<"/", "a">>), Text(<<"/", "a", "/">>), Text(<<"/", "a", "b">>),
   Text(<<"/">>), Text(<<"/", "d">>), Text(<<"/", ".", "/", "d">>), <<>>}

----------------------------------------------------------------------------
(* Specification of the lists: a caller constructs one list from the lines  *)
(* of a file with parse_from and, when it got one, queries it.              *)

InitTable ==
  /\ call \in {[op |-> "MountList::parse_from", lines |-> lines] :
                 lines \in SeqsUpTo(TableMountLines, MaxLines)}
         \cup {[op |-> "SwapList::parse_from", lines |-> lines] :
                 lines \in SeqsUpTo(TableSwapLines, MaxLines)}
  /\ pc = "call"
  /\ ret = Pending
  /\ mounts = NoList
  /\ swaps = NoList

MountParseFrom ==
  /\ pc = "call"
  /\ call.op = "MountList::parse_from"
  /\ ret' = MountList_parse_from(call.lines)
  /\ mounts' = ret'
  /\ pc' = "done"
  /\ UNCHANGED <<call, swaps>>

SwapParseFrom ==
  /\ pc = "call"
  /\ call.op = "SwapList::parse_from"
  /\ ret' = SwapList_parse_from(call.lines)
  /\ swaps' = ret'
  /\ pc' = "done"
  /\ UNCHANGED <<call, mounts>>

GetMountByDest ==
  /\ pc = "done"
  /\ mounts.ok
  /\ \E path \in QueryPaths :
       /\ call' = [op |-> "get_mount_by_dest", path |-> path]
       /\ ret' = get_mount_by_dest(mounts.val, path)
  /\ UNCHANGED <<pc, mounts, swaps>>

GetMountBySource ==
  /\ pc = "done"
  /\ mounts.ok
  /\ \E path \in QueryPaths :
       /\ call' = [op |-> "get_mount_by_source", path |-> path]
       /\ ret' = get_mount_by_source(mounts.val, path)
  /\ UNCHANGED <<pc, mounts, swaps>>

SourceStartsWith ==
  /\ pc = "done"
  /\ mounts.ok
  /\ \E path \in QueryPaths :
       /\ call' = [op |-> "source_starts_with", path |-> path]
       /\ ret' = source_starts_with(mounts.val, path)
  /\ UNCHANGED <<pc, mounts, swaps>>

DestinationStartsWith ==
  /\ pc = "done"
  /\ mounts.ok
  /\ \E path \in QueryPaths :
       /\ call' = [op |-> "destination_starts_with", path |-> path]
       /\ ret' = destination_starts_with(mounts.val, path)
  /\ UNCHANGED <<pc, mounts, swaps>>

GetSwapped ==
  /\ pc = "done"
  /\ swaps.ok
  /\ \E path \in QueryPaths :
       /\ call' = [op |-> "get_swapped", path |-> path]
       /\ ret' = get_swapped(swaps.val, path)
  /\ UNCHANGED <<pc, mounts, swaps>>

NextTable ==
  \/ MountParseFrom
  \/ SwapParseFrom
  \/ GetMountByDest
  \/ GetMountBySource
  \/ SourceStartsWith
  \/ DestinationStartsWith
  \/ GetSwapped

SpecTable == InitTable /\ [][NextTable]_vars

----------------------------------------------------------------------------
(* The decoder's claims.                                                   *)

IsParseValue == call.op \in {"MountList::parse_value", "SwapList::parse_value"}

\* The zero-padded 3-digit octal representation of the byte b.
Oct3(b) == <<ZERO + (b \div 64), ZERO + ((b \div 8) % 8), ZERO + (b % 8)>>

\* The three bytes after index i, when the field has them.
After3(f, i) == <<f[i + 1], f[i + 2], f[i + 3]>>

\* The backslash at index i is followed by three octal digits.
EscapeAt(f, i) ==
  /\ i + 3 <= Len(f)
  /\ \A k \in 1..3 : f[i + k] \in OctalDigits

\* Every backslash of the field is followed by three octal digits.
AllEscapesComplete(f) ==
  \A i \in 1..Len(f) : f[i] = BACKSLASH => EscapeAt(f, i)

\* Every backslash of the field is followed by the octal representation of a byte.
WellFormed(f) ==
  \A i \in 1..Len(f) :
    f[i] = BACKSLASH =>
      /\ i + 3 <= Len(f)
      /\ \E b \in 0..255 : After3(f, i) = Oct3(b)

\* In a field whose escapes are complete, the indices that start a piece: those
\* not among the three digits of an escape, in input order.
PieceStarts(f) ==
  SelectSeq([p \in 1..Len(f) |-> p],
            LAMBDA p : \A i \in 1..Len(f) :
                         (f[i] = BACKSLASH /\ i < p) => p > i + 3)

\* The reference decoding of a well-formed field: piece by piece, a byte other
\* than backslash is itself and an escape is the byte whose octal representation
\* follows the backslash.
Reference(f) ==
  LET starts == PieceStarts(f)
  IN  [k \in 1..Len(starts) |->
         IF f[starts[k]] = BACKSLASH
         THEN CHOOSE b \in 0..255 : After3(f, starts[k]) = Oct3(b)
         ELSE f[starts[k]]]

\* C4: on every well-formed field (each backslash followed by the zero-padded
\* 3-digit octal representation of a byte 0..255) parse_value returns the
\* reference decoding: bytes other than backslash copied unchanged, each escape
\* replaced by its byte, in input order; a field without backslash decodes to
\* itself.
C4_DecoderAgreesWithReference ==
  (pc = "done" /\ IsParseValue /\ WellFormed(call.value)) =>
    /\ ret = Ok(Reference(call.value))
    /\ (\A i \in 1..Len(call.value) : call.value[i] # BACKSLASH) =>
         ret = Ok(call.value)

\* C4 witness: the field a\040a has been decoded to the bytes a, space, a.
C4_Witness ==
  /\ pc = "done"
  /\ IsParseValue
  /\ call.value = Text(<<"a", "backslash", "0", "4", "0", "a">>)
  /\ ret = Ok(<<Code("a"), SPACE, Code("a")>>)

\* The error of an escape that is cut short or holds a byte that is no octal digit.
IsMalformedEscape(r) ==
  /\ ~r.ok
  /\ r.kind = "Other"
  /\ r.msg \in {"truncated octal code", "invalid digit found in string"}

\* C5: parse_value fails, with the malformed-escape error and without any bytes,
\* exactly on the fields in which some backslash is not followed by three octal
\* digits; it never fails when every backslash is followed by three octal digits.
C5_MalformedEscapeExactly ==
  (pc = "done" /\ IsParseValue) =>
    /\ ret.ok <=> AllEscapesComplete(call.value)
    /\ ~ret.ok => (IsMalformedEscape(ret) /\ DOMAIN ret = {"ok", "kind", "msg"})

\* C5 witness: the field a\03, whose escape has two digits, has been refused.
C5_Witness ==
  /\ pc = "done"
  /\ IsParseValue
  /\ call.value = Text(<<"a", "backslash", "0", "3">>)
  /\ ret = Err("Other", "truncated octal code")

\* The number the three octal digits after index i denote.
OctalNumber(f, i) ==
  (f[i + 1] - ZERO) * 64 + (f[i + 2] - ZERO) * 8 + (f[i + 3] - ZERO)

\* C10: an escape denoting a value above 255 (\400 .. \777) is not rejected; every
\* backslash followed by three octal digits yields exactly one output byte, the
\* value of the digits modulo 256, which lies in 0..255.
C10_HighEscapesWrap ==
  (pc = "done" /\ IsParseValue /\ AllEscapesComplete(call.value)) =>
    LET f == call.value
        starts == PieceStarts(f)
    IN  /\ ret.ok
        /\ Len(ret.val) = Len(starts)
        /\ \A k \in 1..Len(starts) :
             /\ ret.val[k] \in 0..255
             /\ f[starts[k]] = BACKSLASH =>
                  ret.val[k] = OctalNumber(f, starts[k]) % 256

\* C10 witness: the field \777 (511) has been decoded to the single byte 255, and
\* \400 (256) to the single byte 0.
C10_Witness ==
  /\ pc = "done"
  /\ IsParseValue
  /\ \/ /\ call.value = Text(<<"backslash", "7", "7", "7">>)
        /\ ret = Ok(<<255>>)
     \/ /\ call.value = Text(<<"backslash", "4", "0", "0">>)
        /\ ret = Ok(<<0>>)

----------------------------------------------------------------------------
(* The line parsers' claims.                                               *)

Indices(s) == [p \in 1..Len(s) |-> p]

\* The fields of s separated by the single byte sep: the pieces between
\* consecutive occurrences of sep (and the ends of s).
PiecesBy(s, sep) ==
  LET cuts == <<0>> \o SelectSeq(Indices(s), LAMBDA p : s[p] = sep) \o <<Len(s) + 1>>
  IN  [k \in 1..(Len(cuts) - 1) |-> SubSeq(s, cuts[k] + 1, cuts[k + 1] - 1)]

\* The fields of s separated by runs of whitespace: the maximal runs of bytes
\* that are not whitespace.
WhitespaceFields(s) ==
  LET starts == SelectSeq(Indices(s),
                  LAMBDA p : ~is_whitespace(s[p]) /\ (p = 1 \/ is_whitespace(s[p - 1])))
      ends == SelectSeq(Indices(s),
                  LAMBDA p : ~is_whitespace(s[p]) /\ (p = Len(s) \/ is_whitespace(s[p + 1])))
  IN  [k \in 1..Len(starts) |-> SubSeq(s, starts[k], ends[k])]

\* The decoding of a field whose escapes are complete (C4, C10).
Decoded(f) ==
  LET starts == PieceStarts(f)
  IN  [k \in 1..Len(starts) |->
         IF f[starts[k]] = BACKSLASH THEN OctalNumber(f, starts[k]) % 256
         ELSE f[starts[k]]]

\* Decimal text: an optional sign ('-' only when signed) and at least one digit.
HasSign(t) == t # <<>> /\ t[1] \in {PLUS, MINUS}
DigitsOf(t) == IF HasSign(t) THEN Tail(t) ELSE t
IsDecimal(t, signed) ==
  /\ DigitsOf(t) # <<>>
  /\ \A i \in 1..Len(DigitsOf(t)) : DigitsOf(t)[i] \in ZERO..(ZERO + 9)
  /\ (t[1] = MINUS) => signed

\* The digits of t without the leading zeros (none left for zero).
Significant(t) ==
  LET d == DigitsOf(t)
      nz == {i \in 1..Len(d) : d[i] # ZERO}
  IN  IF nz = {} THEN <<>>
      ELSE SubSeq(d, CHOOSE i \in nz : \A j \in nz : i <= j, Len(d))

\* The decimal digits of the natural number n (none for zero).
RECURSIVE DecimalOf(_)
DecimalOf(n) ==
  IF n = 0 THEN <<>> ELSE Append(DecimalOf(n \div 10), ZERO + (n % 10))

\* The digits of |v| for an i32 v.
MagnitudeOf(v) ==
  IF v >= 0 THEN DecimalOf(v)
  ELSE IF v = I32_MIN THEN [DecimalOf(I32_MAX) EXCEPT ![10] = @ + 1]
  ELSE DecimalOf(-v)

\* v is the integer the decimal text t writes.
Denotes(t, v) ==
  /\ Significant(t) = MagnitudeOf(v)
  /\ v < 0 => t[1] = MINUS
  /\ v > 0 => t[1] # MINUS

\* a <= b for digit strings without leading zeros.
DigitsLeq(a, b) ==
  \/ Len(a) < Len(b)
  \/ /\ Len(a) = Len(b)
     /\ \/ a = b
        \/ \E i \in 1..Len(a) : a[i] < b[i] /\ \A j \in 1..(i - 1) : a[j] = b[j]

\* t writes an integer of -2^31 .. 2^31-1.
IsI32Text(t) ==
  /\ IsDecimal(t, TRUE)
  /\ DigitsLeq(Significant(t),
               MagnitudeOf(IF t[1] = MINUS THEN I32_MIN ELSE I32_MAX))

MountMissing ==
  <<"missing source", "missing dest", "missing type", "missing options",
    "missing dump", "missing pass">>

SwapMissing ==
  <<"Missing source", "Missing kind", "Missing size", "Missing used",
    "Missing priority">>

IsMountLine == call.op = "MountList::parse_line"
IsSwapLine == call.op = "SwapList::parse_line"

\* What is wrong with the k-th field f of a swap line, "" when nothing is: in
\* any field a malformed escape; in size, used (k = 3, 4) and priority (k = 5)
\* a decoded text that is not UTF-8 or not an integer of the field's signedness.
SwapFieldFault(f, k) ==
  IF ~AllEscapesComplete(f) THEN "MalformedEscape"
  ELSE IF k < 3 THEN ""
  ELSE IF ~to_str_is_some(Decoded(f)) THEN "NonTextData"
  ELSE IF ~IsDecimal(Decoded(f), k = 5) THEN "InvalidField"
  ELSE ""

\* The result r is the error of the fault.
IsSwapFault(r, fault) ==
  CASE fault = "MalformedEscape" -> IsMalformedEscape(r)
    [] fault = "NonTextData" ->
         r = Err("InvalidData", "/proc/swaps contains non-UTF8 entry")
    [] fault = "InvalidField" ->
         r = Err("InvalidData", "/proc/swaps contains invalid data")
    [] OTHER -> FALSE

\* The first of the fields fs (at most five are looked at) that has a fault, 0
\* when none has.
FirstFaulty(fs) ==
  LET faulty == {k \in 1..Len(fs) : k <= 5 /\ SwapFieldFault(fs[k], k) # ""}
  IN  IF faulty = {} THEN 0 ELSE CHOOSE k \in faulty : \A j \in faulty : k <= j

\* C2 as stated: a mount line of fewer than 6 fields and a swap line of fewer
\* than 5 fails with the missing-field error naming the first absent field,
\* whatever the fields that are present hold.
C2_Original ==
  pc = "done" =>
    /\ IsMountLine =>
         LET fs == PiecesBy(call.line, SPACE)
         IN  Len(fs) < 6 => ret = Err("InvalidData", MountMissing[Len(fs) + 1])
    /\ IsSwapLine =>
         LET fs == WhitespaceFields(call.line)
         IN  Len(fs) < 5 => ret = Err("Other", SwapMissing[Len(fs) + 1])

\* C2 (amended): such a line always fails.  The error is the missing-field error
\* naming the first absent field unless a field that is present and converted
\* before the absence is noticed is invalid: a mount line of 5 fields whose dump
\* is no i32 fails with the invalid-dump error; a swap line with a faulty
\* present field fails with the error of the first faulty field.
C2_MissingFieldUnlessEarlierFault ==
  pc = "done" =>
    /\ IsMountLine =>
         LET fs == PiecesBy(call.line, SPACE)
         IN  Len(fs) < 6 =>
               IF Len(fs) = 5 /\ ~IsI32Text(fs[5])
               THEN ret = Err("InvalidData", "dump value is not a number")
               ELSE ret = Err("InvalidData", MountMissing[Len(fs) + 1])
    /\ IsSwapLine =>
         LET fs == WhitespaceFields(call.line)
         IN  Len(fs) < 5 =>
               IF FirstFaulty(fs) = 0
               THEN ret = Err("Other", SwapMissing[Len(fs) + 1])
               ELSE IsSwapFault(ret, SwapFieldFault(fs[FirstFaulty(fs)], FirstFaulty(fs)))

\* C2 witness: a mount line of four valid fields has failed with "missing dump".
C2_Witness ==
  /\ pc = "done"
  /\ IsMountLine
  /\ call.line = Text(<<"/", "a", " ", "/", "a", " ", "e", "x", "t", "4", " ",
                        "r", "w", ",", "r", "o", ",", "r", "w">>)
  /\ ret = Err("InvalidData", "missing dump")

\* C3 as stated: a record is produced only from a line of exactly 6 fields
\* (mounts) or exactly 5 fields (swaps).
C3_Original ==
  (pc = "done" /\ ret.ok) =>
    /\ IsMountLine => Len(PiecesBy(call.line, SPACE)) = 6
    /\ IsSwapLine => Len(WhitespaceFields(call.line)) = 5

\* C3 (amended): a record is produced only from a line of at least 6 fields
\* (mounts) or at least 5 fields (swaps); the fields after the 6th (5th) are
\* not looked at: the result is that of the line cut after its 6th (5th) field.
C3_AtLeastTheNamedFields ==
  pc = "done" =>
    /\ IsMountLine =>
         LET fs == PiecesBy(call.line, SPACE)
         IN  /\ ret.ok => Len(fs) >= 6
             /\ Len(fs) > 6 =>
                  ret = MountList_parse_line(Join(SubSeq(fs, 1, 6), <<SPACE>>))
    /\ IsSwapLine =>
         LET fs == WhitespaceFields(call.line)
         IN  /\ ret.ok => Len(fs) >= 5
             /\ Len(fs) > 5 =>
                  ret = SwapList_parse_line(Join(SubSeq(fs, 1, 5), <<SPACE>>))

\* C3 witness: a mount line of seven fields has produced a record.
C3_Witness ==
  /\ pc = "done"
  /\ IsMountLine
  /\ Len(PiecesBy(call.line, SPACE)) = 7
  /\ ret.ok
  /\ ret.val.source = Text(<<"/", "a">>)

\* C6: a mount line of six fields f1..f6 fails with the invalid-dump error when
\* f5 is no i32, else with the invalid-pass error when f6 is no i32; otherwise,
\* when f1 and f2 decode, it gives source = decode(f1), dest = decode(f2),
\* fstype = f3 as it stands, options = the comma-separated tokens of f4 in
\* order with duplicates and without decoding, dump and pass the i32 written in
\* f5 and f6.
C6_MountRecord ==
  (pc = "done" /\ IsMountLine /\ Len(PiecesBy(call.line, SPACE)) = 6) =>
    LET f == PiecesBy(call.line, SPACE)
    IN  IF ~IsI32Text(f[5])
        THEN ret = Err("InvalidData", "dump value is not a number")
        ELSE IF ~IsI32Text(f[6])
        THEN ret = Err("InvalidData", "pass value is not a number")
        ELSE IF ~(AllEscapesComplete(f[1]) /\ AllEscapesComplete(f[2]))
        THEN IsMalformedEscape(ret)
        ELSE /\ ret.ok
             /\ ret.val.source = Decoded(f[1])
             /\ ret.val.dest = Decoded(f[2])
             /\ ret.val.fstype = f[3]
             /\ ret.val.options = PiecesBy(f[4], COMMA)
             /\ ret.val.dump \in I32_MIN..I32_MAX
             /\ Denotes(f[5], ret.val.dump)
             /\ ret.val.pass \in I32_MIN..I32_MAX
             /\ Denotes(f[6], ret.val.pass)

\* C6 witness: the line "/a a\040b \040 rw,ro,rw -2147483648 2147483647" has
\* given the record with the decoded dest, the literal fstype, the three
\* options and the two extreme numbers.
C6_Witness ==
  /\ pc = "done"
  /\ IsMountLine
  /\ ret = Ok([source  |-> Text(<<"/", "a">>),
               dest    |-> Text(<<"a", " ", "b">>),
               fstype  |-> Text(<<"backslash", "0", "4", "0">>),
               options |-> <<Text(<<"r", "w">>), Text(<<"r", "o">>), Text(<<"r", "w">>)>>,
               dump    |-> I32_MIN,
               pass    |-> I32_MAX])

\* The error the spec calls InvalidField, for a swap line.
SwapInvalidField == Err("InvalidData", "/proc/swaps contains invalid data")

----------------------------------------------------------------------------
(* The lists' claims.                                                      *)

\* The least element of a non-empty set of numbers.
Least(S) == CHOOSE i \in S : \A j \in S : i <= j

\* What parse_from must return for the lines, given each line's own result:
\* every record in input order when every line parses, else the error of the
\* first line that fails.
AllOrFirstError(results) ==
  LET failing == {i \in 1..Len(results) : ~results[i].ok}
  IN  IF failing = {} THEN Ok([i \in 1..Len(results) |-> results[i].val])
      ELSE results[Least(failing)]

\* C1: parse_from is all-or-nothing: the result is the list holding exactly one
\* record per line, in input order, when every line parses, and otherwise
\* exactly the error of the first line that fails; the list the caller gets is
\* never a part of the lines.
C1_AllOrNothing ==
  pc = "done" =>
    /\ call.op = "MountList::parse_from" =>
         /\ ret = AllOrFirstError([i \in 1..Len(call.lines) |->
                                     MountList_parse_line(call.lines[i])])
         /\ ret.ok => Len(ret.val) = Len(call.lines)
         /\ mounts = ret
    /\ call.op = "SwapList::parse_from" =>
         /\ ret = AllOrFirstError([i \in 1..Len(call.lines) |->
                                     SwapList_parse_line(call.lines[i])])
         /\ ret.ok => Len(ret.val) = Len(call.lines)
         /\ swaps = ret

\* C1 witness: of three lines the first parses, the second has a dump that is
\* no number and the third lacks its dest: the second line's error came back.
C1_Witness ==
  /\ pc = "done"
  /\ call.op = "MountList::parse_from"
  /\ Len(call.lines) = 3
  /\ MountList_parse_line(call.lines[1]).ok
  /\ MountList_parse_line(call.lines[3]) = Err("InvalidData", "missing dest")
  /\ ret = Err("InvalidData", "dump value is not a number")
  /\ mounts = ret

IsExactQuery == call.op \in {"get_mount_by_dest", "get_mount_by_source"}
IsPrefixQuery == call.op \in {"source_starts_with", "destination_starts_with"}

\* The field of the entries a mount query looks at.
QueryField ==
  IF call.op \in {"get_mount_by_dest", "destination_starts_with"} THEN "dest"
  ELSE "source"

\* What a first-match query must return: the earliest entry of the list whose
\* field is Same as the path, none when there is none.
FirstMatch(list, field, path, Same(_, _)) ==
  LET matching == {i \in 1..Len(list) : Same(list[i][field], path)}
  IN  IF matching = {} THEN None ELSE Some(list[Least(matching)])

BytesEqual(a, b) == a = b

\* The names of a path: its pieces between '/' without the empty ones and
\* without the "." ones other than a first one.
PathNames(p) ==
  LET pieces == PiecesBy(p, SLASH)
      named == SelectSeq(Indices(pieces),
                 LAMBDA k : pieces[k] # <<>> /\ (pieces[k] = <<DOT>> => k = 1))
  IN  [k \in 1..Len(named) |-> pieces[named[k]]]

IsAbsolute(p) == p # <<>> /\ p[1] = SLASH

\* Equality of paths component by component.
SamePath(a, b) == IsAbsolute(a) = IsAbsolute(b) /\ PathNames(a) = PathNames(b)

\* C8 as stated: the exact-match queries decide by exact (byte for byte)
\* equality of the stored path with the queried path.
C8_Original ==
  /\ IsExactQuery =>
       ret = FirstMatch(mounts.val, QueryField, call.path, BytesEqual)
  /\ call.op = "get_swapped" =>
       ret = (\E i \in 1..Len(swaps.val) : swaps.val[i].source = call.path)

\* C8 (amended): the exact-match queries decide by equality of the stored path
\* with the queried path as paths, component by component (repeated and
\* trailing separators and "." components other than a leading one do not
\* count): get_mount_by_dest and get_mount_by_source return the earliest entry
\* in file order whose dest (source) equals the path, also when several match,
\* and none when none does; get_swapped is true exactly when some entry's source
\* equals the path.
C8_FirstMatchByPathEquality ==
  /\ IsExactQuery =>
       ret = FirstMatch(mounts.val, QueryField, call.path, SamePath)
  /\ call.op = "get_swapped" =>
       ret = (\E i \in 1..Len(swaps.val) : SamePath(swaps.val[i].source, call.path))

\* C8 witness: in a list with the dests /ab, /a, /a/ the query for the dest /a
\* has returned the second entry, the earlier of the two that match.
C8_Witness ==
  /\ call.op = "get_mount_by_dest"
  /\ call.path = Text(<<"/", "a">>)
  /\ Len(mounts.val) = 3
  /\ mounts.val[1].dest = Text(<<"/", "a", "b">>)
  /\ mounts.val[2].dest = Text(<<"/", "a">>)
  /\ mounts.val[3].dest = Text(<<"/", "a", "/">>)
  /\ ret = Some(mounts.val[2])

\* The bytes of x begin with the bytes of p.
IsBytePrefix(p, x) == \A i \in 1..Len(p) : i <= Len(x) /\ x[i] = p[i]

\* The entries of the list whose field begins with the path, each once, in
\* file order.
PrefixMatches(list, field, path) ==
  LET matching == SelectSeq(Indices(list),
                    LAMBDA i : IsBytePrefix(path, list[i][field]))
  IN  [k \in 1..Len(matching) |-> list[matching[k]]]

C9_Result ==
  IsPrefixQuery => ret = PrefixMatches(mounts.val, QueryField, call.path)

C9_ListUnchanged ==
  (call.op' \in {"source_starts_with", "destination_starts_with"}) =>
    mounts' = mounts

\* C9: source_starts_with and destination_starts_with yield exactly the entries
\* whose source (dest) bytes begin with the bytes of the path (/a matches /ab;
\* an entry shorter than the path never matches), each once and in file order;
\* the list is left unchanged, so that the query run again yields the same.
C9_PrefixQueries == []C9_Result /\ [][C9_ListUnchanged]_vars

\* C9 witness: in a list with the dests /a/, /a, /ab the query for the dests
\* that start with /a has yielded all three entries in file order, and the
\* query for those that start with /a/ or with /ab only the first or the third.
C9_Witness ==
  /\ call.op = "destination_starts_with"
  /\ Len(mounts.val) = 3
  /\ mounts.val[1].dest = Text(<<"/", "a", "/">>)
  /\ mounts.val[2].dest = Text(<<"/", "a">>)
  /\ mounts.val[3].dest = Text(<<"/", "a", "b">>)
  /\ \/ call.path = Text(<<"/", "a">>) /\ ret = mounts.val
     \/ call.path = Text(<<"/", "a", "/">>) /\ ret = <<mounts.val[1]>>
     \/ call.path = Text(<<"/", "a", "b">>) /\ ret = <<mounts.val[3]>>

====
